---- MODULE Spec2Model ----
(***************************************************************************)
(* Model of the two Home Assistant integrations of smartqasa/scene_capture *)
(*   custom_components/scene_capture/__init__.py  (service update)         *)
(*   custom_components/smartqasa/__init__.py      (scene_get, scene_update)*)
(* Both read and rewrite the same file scenes.yaml.  Coroutines interleave *)
(* at their awaits only; every action below is one run of a handler from   *)
(* one await to the next.                                                  *)
(***************************************************************************)
EXTENDS Integers, Sequences, FiniteSets, TLC

VARIABLES
  file,     \* content of <config_dir>/scenes.yaml
  tmp,      \* invocations whose scenes_*.tmp file exists in config_dir
  states,   \* hass.states: entity id -> runtime state
  lockQ,    \* per lock: the holder (head) followed by the FIFO of waiters
  pc,       \* per invocation: position in its handler
  call,     \* per invocation: service and entity_id of the call
  loc,      \* per invocation: the handler's local variables
  h,        \* per invocation: what the invocation has done (log, effects)
  serial,   \* the document obtained by applying the writes one at a time
  file0,    \* content of scenes.yaml before any invocation started
  cnt,      \* counters bounding I/O faults and environment steps
  ser       \* a value handed to the two serializers, and what each returned

vars == <<file, tmp, states, lockQ, pc, call, loc, h, serial, file0, cnt, ser>>

----------------------------------------------------------------------------
(* Bounds of the model *)

MaxFaults == 1
MaxEnvSteps == 1

(* max_attempts of the retry loop *)
MaxAttempts == 3

(* longest mapping or sequence handed to a serializer *)
MaxLen == 2

(* the 0.25 s of `delay = 0.25 * (2 ** attempt)`, in milliseconds *)
BaseDelayMs == 250

Procs == {"p1", "p2"}
Entities == {"e1", "e2"}
Locks == {"capture", "smartqasa"}
Services == {"update", "scene_update", "scene_get"}

(* entity_id values a call may carry; "#list" stands for a value that is not
   a string *)
EntityIds == {"scene.a", "scene.b", "scene.noid", "scene.ghost", "light.x", "#list"}

----------------------------------------------------------------------------
(* Documents *)

Absent == [kind |-> "absent", items |-> <<>>]
Empty == [kind |-> "empty", items |-> <<>>]
NotList == [kind |-> "notlist", items |-> <<>>]
Doc(items) == [kind |-> "list", items |-> items]

Ent(k, v) == [k |-> k, v |-> v]
Rec(id, ents, other) ==
  [dict |-> TRUE, hasId |-> TRUE, id |-> id, hasEnts |-> TRUE, ents |-> ents, other |-> other]
NoEntsRec(id, other) ==
  [dict |-> TRUE, hasId |-> TRUE, id |-> id, hasEnts |-> FALSE, ents |-> <<>>, other |-> other]
NoIdRec(ents, other) ==
  [dict |-> TRUE, hasId |-> FALSE, id |-> "", hasEnts |-> TRUE, ents |-> ents, other |-> other]
NonDict ==
  [dict |-> FALSE, hasId |-> FALSE, id |-> "", hasEnts |-> FALSE, ents |-> <<>>, other |-> "str"]

S1 == Rec("s1", <<Ent("e2", "init"), Ent("e1", "init")>>, "name=A")
S2 == Rec("s2", <<Ent("e1", "init")>>, "name=B;icon=x")

InitFiles ==
  { Absent,
    NotList,
    Doc(<<S1, S2>>),
    Doc(<<S1, NoEntsRec("s2", "name=B")>>),
    Doc(<<S1, NoIdRec(<<Ent("e1", "init")>>, "name=C")>>),
    Doc(<<S1, NonDict>>) }

(* yaml.safe_load(content) or []: an empty file loads as None, hence as [] *)
SafeLoad(f) == IF f.kind = "empty" THEN Doc(<<>>) ELSE f

(* yaml.safe_dump(scenes_config, ...): the text of a list, "[]" for the empty one *)
SafeDump(items) == Doc(items)

----------------------------------------------------------------------------
(* The host's entity registry, as far as the handlers read it *)

(* isinstance(entity_id, str) *)
IsString(eid) == eid # "#list"

(* entity_id.startswith("scene.") *)
StartsWithScene(eid) == eid \in {"scene.a", "scene.b", "scene.noid", "scene.ghost"}

(* hass.states.get(entity_id) of a scene entity returns a state object *)
HasSceneState(eid) == eid \in {"scene.a", "scene.b", "scene.noid"}

(* "id" in state.attributes *)
HasIdAttr(eid) == eid \in {"scene.a", "scene.b"}

(* state.attributes["id"] *)
SceneIdOf(eid) == IF eid = "scene.a" THEN "s1" ELSE "s2"

(* guards that do not look for the id attribute *)
ValidCallLax(eid) == IsString(eid) /\ StartsWithScene(eid) /\ HasSceneState(eid)

(* the guards before the lock: a string starting with scene., a state, an id *)
ValidCall(eid) ==
  IsString(eid) /\ StartsWithScene(eid) /\ HasSceneState(eid) /\ HasIdAttr(eid)

(* Runtime state of an entity: "none" is no state object, "null" a state
   object whose state is None, anything else a state object with that state *)
StateVals == {"none", "null", "on", "off"}

RECURSIVE Pow2(_)
Pow2(n) == IF n = 0 THEN 1 ELSE 2 * Pow2(n - 1)

(* a retry loop that sleeps the same time before every attempt *)
DelayFlat(attempt) == BaseDelayMs

(* delay = 0.25 * (2 ** attempt), the sleep after failed attempt number `attempt` *)
Delay(attempt) == BaseDelayMs * Pow2(attempt)

(* `if state:` - a state object is truthy whatever its state value *)
Truthy(st) == st # "none"

(* `state and state.state is not None` *)
Loaded(st) == st # "none" /\ st # "null"

(* an entry that ignores the runtime state *)
EntryOfBlank(st) == "None"

(* the entry written for an entity: its serialized attributes plus
   attributes["state"] = str(state.state); str(None) is "None" *)
EntryOf(st) == IF st = "null" THEN "None" ELSE st

----------------------------------------------------------------------------
(* Serializers *)

(* A runtime value: t is its type, v the text str() gives for it (for an
   enumerated value: for its underlying value, whose type is vt), a the text
   of the `value` attribute of an opaque object that has one, k the key under
   which the value sits in a mapping, items the members of a container *)
V(t, vt, v, a, items) == [t |-> t, vt |-> vt, v |-> v, a |-> a, k |-> "", items |-> items]

Prim(t, v) == V(t, "", v, "", <<>>)
EnumOf(vt, v) == V("enum", vt, v, "", <<>>)
Obj(v, a) == V("obj", "", v, a, <<>>)
Container(t, items) == V(t, "", "", "", items)

PrimTypes == {"int", "float", "str", "bool", "null"}

(* isinstance(data, (int, float, str, bool)) or data is None *)
IsPrim(d) == d.t \in PrimTypes

(* hasattr(data, "value") *)
HasValueAttr(d) == d.t = "enum" \/ (d.t = "obj" /\ d.a # "")

(* str(data.value) *)
ValueText(d) == IF d.t = "enum" THEN d.v ELSE d.a

(* str(data) *)
StrOf(d) == IF d.t \in {"tuple", "list", "dict"} THEN "<repr>" ELSE d.v

(* the result sits where the argument sat *)
At(d, r) == [r EXCEPT !.k = d.k]

RECURSIVE to_serializable(_)
(* scene_capture: dict, list, anything with a `value` attribute, primitives,
   and str(data) for the rest *)
to_serializable(d) ==
  IF d.t \in {"dict", "list"}
  THEN [d EXCEPT !.items = [i \in 1..Len(d.items) |-> to_serializable(d.items[i])]]
  ELSE IF HasValueAttr(d) THEN At(d, Prim("str", ValueText(d)))
  ELSE IF IsPrim(d) THEN d
  ELSE At(d, Prim("str", StrOf(d)))

RECURSIVE make_serializable(_)
(* smartqasa: Enum gives data.value, primitives, dict, list, tuple, and
   str(data) for the rest *)
make_serializable(d) ==
  IF d.t = "enum" THEN At(d, Prim(d.vt, d.v))
  ELSE IF IsPrim(d) THEN d
  ELSE IF d.t \in {"dict", "list", "tuple"}
  THEN [d EXCEPT !.items = [i \in 1..Len(d.items) |-> make_serializable(d.items[i])]]
  ELSE At(d, Prim("str", StrOf(d)))

(* values without members *)
SerLeaves ==
  { Prim("int", "5"), Prim("float", "1.5"), Prim("str", "x"), Prim("bool", "True"),
    Prim("null", "None"),
    EnumOf("str", "brightness"), EnumOf("int", "4"),
    Obj("<obj>", ""), Obj("<wrapper>", "inner") }

SerKeys == <<"k1", "k2", "k3">>

SeqsUpTo(S, n) == UNION {[1..m -> S] : m \in 0..n}

Keyed(items) == [i \in 1..Len(items) |-> [items[i] EXCEPT !.k = SerKeys[i]]]

(* containers of the members in S *)
ContainersOf(S) ==
  {Container("list", q) : q \in SeqsUpTo(S, MaxLen)}
    \cup {Container("tuple", q) : q \in SeqsUpTo(S, MaxLen)}
    \cup {Container("dict", Keyed(q)) : q \in SeqsUpTo(S, MaxLen)}

(* the values handed to the serializers: leaves, containers of leaves, and
   containers of one container of one leaf *)
SerInputs ==
  SerLeaves \cup ContainersOf(SerLeaves)
    \cup UNION {ContainersOf({c}) : c \in UNION {ContainersOf({l}) : l \in SerLeaves}}

(* no result yet *)
Pending == V("pending", "", "", "", <<>>)

SerIdle == [data |-> Prim("null", "None"), to |-> Pending, mk |-> Pending]

----------------------------------------------------------------------------
(* Locating and replacing records *)

Matches(items, sid) ==
  {i \in 1..Len(items) : items[i].dict /\ items[i].hasId /\ items[i].id = sid}

Min(S) == CHOOSE x \in S : \A y \in S : x <= y

(* next((s for s in scenes_config if s.get("id") == scene_id), None): the
   index of the first match, 0 for None *)
FirstMatch(items, sid) ==
  IF Matches(items, sid) = {} THEN 0 ELSE Min(Matches(items, sid))

(* s.get raises AttributeError on an item that is not a mapping, when the
   generator reaches it before a match *)
FindRaises(items, sid) ==
  \E i \in 1..Len(items) :
    ~items[i].dict /\ (FirstMatch(items, sid) = 0 \/ i < FirstMatch(items, sid))

(* the per-record validation of update_scene_states *)
RecordsValid(items) ==
  \A i \in 1..Len(items) : items[i].dict /\ items[i].hasId /\ items[i].hasEnts

(* target_scene.get("entities", {}) *)
GetEnts(r) == IF r.hasEnts THEN r.ents ELSE <<>>

(* target_scene["entities"] = updated_entities *)
SetEnts(r, ents) == [r EXCEPT !.hasEnts = TRUE, !.ents = ents]

(* the keys in reverse order *)
KeysReversed(ents) == [i \in 1..Len(ents) |-> ents[Len(ents) + 1 - i].k]

Keys(ents) == [i \in 1..Len(ents) |-> ents[i].k]

RECURSIVE CaptureEntities(_, _)
(* the loop of handle_update over the scene's entities against the snapshot
   all_states: an entity with a state object gets a fresh entry, one without
   is left out of updated_entities *)
CaptureEntities(ents, snap) ==
  IF ents = <<>> THEN <<>>
  ELSE LET e == Head(ents)
           rest == CaptureEntities(Tail(ents), snap)
       IN IF Truthy(snap[e.k]) THEN <<Ent(e.k, EntryOf(snap[e.k]))>> \o rest
          ELSE rest

----------------------------------------------------------------------------
(* Locks *)

LockOf(svc) == IF svc = "update" THEN "capture" ELSE "smartqasa"

Holder(L) == IF lockQ[L] = <<>> THEN "nobody" ELSE Head(lockQ[L])

(* a lock whose release is skipped when the body returns early *)
LockAfterExitReturnLeak(q, how) == IF how = "return" THEN q ELSE Tail(q)

(* a lock whose release is skipped when the body raises *)
LockAfterExitLeak(q, how) == IF how = "raise" THEN q ELSE Tail(q)

(* `async with lock:` left on the path `how` (return, exception, fall through) *)
LockAfterExit(q, how) == Tail(q)

(* acquire(): immediate when the lock is free and nobody waits, else FIFO *)
LockAfterAcquire(q, p) == Append(q, p)

----------------------------------------------------------------------------
(* State *)

LocInit ==
  [sid |-> "", target |-> NonDict, cfg |-> <<>>, tix |-> 0, upd |-> <<>>,
   res |-> <<>>, idx |-> 0, att |-> 0, det |-> FALSE, qs |-> <<>>, waits |-> <<>>]

HInit ==
  [out |-> "none", reloads |-> 0, wrote |-> FALSE, reads |-> {}, foundU |-> "na",
   failed |-> {}, old |-> <<>>, new |-> <<>>, pre |-> Absent, resp |-> <<>>,
   log |-> <<>>, inplace |-> FALSE]

ItemsOf(f) == IF f.kind = "list" THEN f.items ELSE <<>>

InitScenes ==
  /\ file \in InitFiles
  /\ tmp = {}
  /\ states \in [Entities -> {"on", "none", "null"}]
  /\ states["e1"] = "on"
  /\ lockQ = [L \in Locks |-> <<>>]
  /\ pc = [p \in Procs |-> "idle"]
  /\ call = [p \in Procs |-> [svc |-> "update", eid |-> "scene.a"]]
  /\ loc = [p \in Procs |-> LocInit]
  /\ h = [p \in Procs |-> HInit]
  /\ serial = ItemsOf(file)
  /\ file0 = file
  /\ cnt = [faults |-> 0, env |-> 0]

Init == InitScenes /\ ser = SerIdle

CanFail == cnt.faults < MaxFaults
Fault == [cnt EXCEPT !.faults = @ + 1]

(* leaving the handler: the lock is released, the locals are gone *)
Leave(p, L, how, hp) ==
  /\ pc' = [pc EXCEPT ![p] = "done"]
  /\ lockQ' = [lockQ EXCEPT ![L] = LockAfterExit(lockQ[L], how)]
  /\ loc' = [loc EXCEPT ![p] = LocInit]
  /\ h' = [h EXCEPT ![p] = hp]

----------------------------------------------------------------------------
(* Service calls: the part of each handler that runs before the lock *)

(* handle_update 45-57, retrieve_scene 94-108 *)
Call(p, svc, eid) ==
  /\ pc[p] = "idle"
  /\ call' = [call EXCEPT ![p] = [svc |-> svc, eid |-> eid]]
  /\ IF ValidCall(eid)
     THEN /\ pc' = [pc EXCEPT ![p] = IF svc = "update" THEN "read" ELSE "r_read"]
          /\ lockQ' = [lockQ EXCEPT ![LockOf(svc)] = LockAfterAcquire(@, p)]
          /\ loc' = [loc EXCEPT ![p] = [LocInit EXCEPT !.sid = SceneIdOf(eid)]]
          /\ h' = [h EXCEPT ![p] = HInit]
     ELSE /\ pc' = [pc EXCEPT ![p] = "done"]
          /\ lockQ' = lockQ
          /\ loc' = [loc EXCEPT ![p] = LocInit]
          /\ h' = [h EXCEPT ![p] = [HInit EXCEPT !.out = "invalid"]]
  /\ UNCHANGED <<file, tmp, states, serial, file0, cnt, ser>>

----------------------------------------------------------------------------
(* scene_capture.update *)

(* handle_update 57-100: with the lock held, read and parse scenes.yaml,
   locate the scene, rebuild its entities from the snapshot of all states *)
CaptureRead(p) ==
  /\ pc[p] = "read"
  /\ Holder("capture") = p
  /\ LET d == SafeLoad(file)
         items == d.items
         i == FirstMatch(items, loc[p].sid)
         hp == [h[p] EXCEPT !.reads = @ \cup {file.kind}]
     IN IF d.kind = "notlist"
        THEN Leave(p, "capture", "return", [hp EXCEPT !.out = "loaderr"])
        ELSE IF FindRaises(items, loc[p].sid)
        THEN Leave(p, "capture", "raise", [hp EXCEPT !.out = "raised"])
        ELSE IF i = 0
        THEN Leave(p, "capture", "return", [hp EXCEPT !.out = "notfound", !.foundU = "no"])
        ELSE LET new == CaptureEntities(GetEnts(items[i]), states)
             IN /\ pc' = [pc EXCEPT ![p] = "open_w"]
                /\ loc' = [loc EXCEPT ![p] = [@ EXCEPT
                             !.target = items[i], !.tix = i,
                             !.cfg = [items EXCEPT ![i] = SetEnts(@, new)]]]
                /\ h' = [h EXCEPT ![p] = [hp EXCEPT
                             !.foundU = "yes", !.old = GetEnts(items[i]), !.new = new]]
                /\ lockQ' = lockQ
  /\ UNCHANGED <<file, tmp, states, call, serial, file0, cnt, ser>>

(* handle_update 101: aiofiles.open(scenes_file, "w") truncates the file in place *)
CaptureOpenW(p) ==
  /\ pc[p] = "open_w"
  /\ \/ /\ file' = Empty
        /\ pc' = [pc EXCEPT ![p] = "write"]
        /\ h' = [h EXCEPT ![p] = [@ EXCEPT !.pre = file]]
        /\ UNCHANGED <<lockQ, loc, cnt>>
     \/ /\ CanFail
        /\ cnt' = Fault
        /\ Leave(p, "capture", "caught", [h[p] EXCEPT !.out = "writeerr", !.pre = file])
        /\ file' = file
  /\ UNCHANGED <<tmp, states, call, serial, file0, ser>>

(* handle_update 102: f.write(yaml_content) through the handle opened at 101;
   the handle writes to the file it opened, which a rename may have replaced *)
CaptureWrite(p) ==
  /\ pc[p] = "write"
  /\ \/ /\ file' = IF loc[p].det THEN file ELSE SafeDump(loc[p].cfg)
        /\ pc' = [pc EXCEPT ![p] = "reload"]
        /\ h' = [h EXCEPT ![p] = [@ EXCEPT !.wrote = TRUE, !.inplace = ~loc[p].det]]
        /\ serial' = loc[p].cfg
        /\ UNCHANGED <<lockQ, loc, cnt>>
     \/ /\ CanFail
        /\ cnt' = Fault
        /\ Leave(p, "capture", "caught", [h[p] EXCEPT !.out = "writeerr"])
        /\ UNCHANGED <<file, serial>>
  /\ UNCHANGED <<tmp, states, call, file0, ser>>

(* handle_update 103-106, update_scene_states 237-243: scene.reload, then the
   success log; a failing service call is caught and logged as a failure *)
Reload(p) ==
  /\ pc[p] = "reload"
  /\ \/ /\ Leave(p, LockOf(call[p].svc), "ok",
                 [h[p] EXCEPT !.out = "ok", !.reloads = @ + 1])
        /\ cnt' = cnt
     \/ /\ CanFail
        /\ cnt' = Fault
        /\ Leave(p, LockOf(call[p].svc), "caught",
                 [h[p] EXCEPT !.out = "reloaderr", !.reloads = @ + 1])
  /\ UNCHANGED <<file, tmp, states, call, serial, file0, ser>>

----------------------------------------------------------------------------
(* smartqasa.scene_get and smartqasa.scene_update *)

(* retrieve_scene 108-127 and what its caller does with the result:
   handle_scene_get 140-145 answers; handle_scene_update 151-155 gives up or
   goes on to update_scene_states, which takes CAPTURE_LOCK again (178) *)
RetrieveRead(p) ==
  /\ pc[p] = "r_read"
  /\ Holder("smartqasa") = p
  /\ LET d == SafeLoad(file)
         items == d.items
         i == FirstMatch(items, loc[p].sid)
         hp == [h[p] EXCEPT !.reads = @ \cup {file.kind}]
     IN IF d.kind \in {"absent", "notlist"}
        THEN Leave(p, "smartqasa", "return", [hp EXCEPT !.out = "notfound"])
        ELSE IF FindRaises(items, loc[p].sid)
        THEN Leave(p, "smartqasa", "raise", [hp EXCEPT !.out = "raised"])
        ELSE IF i = 0
        THEN Leave(p, "smartqasa", "return", [hp EXCEPT !.out = "notfound"])
        ELSE IF call[p].svc = "scene_get"
        THEN Leave(p, "smartqasa", "return",
                   [hp EXCEPT !.out = "got", !.resp = Keys(GetEnts(items[i]))])
        ELSE /\ pc' = [pc EXCEPT ![p] = "u_read"]
             /\ lockQ' = [lockQ EXCEPT !["smartqasa"] =
                            LockAfterAcquire(LockAfterExit(@, "return"), p)]
             /\ loc' = [loc EXCEPT ![p] = [@ EXCEPT !.target = items[i]]]
             /\ h' = [h EXCEPT ![p] = hp]
  /\ UNCHANGED <<file, tmp, states, call, serial, file0, cnt, ser>>

(* update_scene_states 225-233: the entity loop is over; store the entities in
   the target, serialize, create the temporary file *)
FinishUpdate(p, lp, hp) ==
  LET target == SetEnts(lp.target, lp.upd)
      cfg == IF lp.tix > 0 THEN [lp.cfg EXCEPT ![lp.tix] = target] ELSE lp.cfg
  IN \/ /\ pc' = [pc EXCEPT ![p] = "tmp_write"]
        /\ loc' = [loc EXCEPT ![p] = [lp EXCEPT !.target = target, !.cfg = cfg]]
        /\ h' = [h EXCEPT ![p] = [hp EXCEPT !.new = lp.upd]]
        /\ tmp' = tmp \cup {p}
        /\ UNCHANGED <<lockQ, cnt>>
     \/ /\ CanFail
        /\ cnt' = Fault
        /\ Leave(p, "smartqasa", "caught", [hp EXCEPT !.out = "writeerr", !.pre = file])
        /\ tmp' = tmp

(* update_scene_states 178-206: with the lock held again, read and validate
   scenes.yaml, put the target found by retrieve_scene in the place of the
   record with its id, copy its entities *)
UpdateRead(p) ==
  /\ pc[p] = "u_read"
  /\ Holder("smartqasa") = p
  /\ LET d == SafeLoad(file)
         items == d.items
         i == FirstMatch(items, loc[p].sid)
         hp == [h[p] EXCEPT !.reads = @ \cup {file.kind}]
     IN IF d.kind = "notlist" \/ ~RecordsValid(items)
        THEN /\ Leave(p, "smartqasa", "return", [hp EXCEPT !.out = "loaderr"])
             /\ UNCHANGED <<tmp, cnt>>
        ELSE LET lp == [loc[p] EXCEPT
                          !.tix = i,
                          !.cfg = IF i > 0 THEN [items EXCEPT ![i] = loc[p].target]
                                  ELSE items,
                          !.upd = GetEnts(loc[p].target),
                          !.res = [j \in 1..Len(GetEnts(loc[p].target)) |-> "keep"],
                          !.idx = 1, !.att = 0]
                 hq == [hp EXCEPT !.foundU = IF i > 0 THEN "yes" ELSE "no",
                                  !.old = GetEnts(loc[p].target)]
             IN IF lp.upd = <<>>
                THEN FinishUpdate(p, lp, hq)
                ELSE /\ pc' = [pc EXCEPT ![p] = "resolve"]
                     /\ loc' = [loc EXCEPT ![p] = lp]
                     /\ h' = [h EXCEPT ![p] = hq]
                     /\ UNCHANGED <<lockQ, tmp, cnt>>
  /\ UNCHANGED <<file, states, call, serial, file0, ser>>

(* update_scene_states 205-223: one attempt of hass.states.get for the current
   entity; after a failed attempt that is not the last, the sleep before the
   next one *)
Resolve(p) ==
  /\ pc[p] = "resolve"
  /\ LET l == loc[p]
         e == l.upd[l.idx].k
         st == states[e]
         last == l.att = MaxAttempts - 1
         qs == Append(l.qs, Loaded(st))
         lq == [l EXCEPT !.qs = <<>>, !.waits = <<>>]
         stored == IF Truthy(st)
                   THEN [lq EXCEPT !.upd[l.idx].v = EntryOf(st), !.res[l.idx] = EntryOf(st)]
                   ELSE lq
         hl == [h[p] EXCEPT !.log = Append(@, [k |-> e, qs |-> qs, waits |-> l.waits])]
         hp == IF Loaded(st) THEN hl ELSE [hl EXCEPT !.failed = @ \cup {e}]
     IN IF Loaded(st) \/ last
        THEN IF l.idx < Len(l.upd)
             THEN /\ loc' = [loc EXCEPT ![p] = [stored EXCEPT !.idx = @ + 1, !.att = 0]]
                  /\ h' = [h EXCEPT ![p] = hp]
                  /\ UNCHANGED <<pc, lockQ, tmp, cnt>>
             ELSE FinishUpdate(p, stored, hp)
        ELSE /\ loc' = [loc EXCEPT ![p] = [l EXCEPT !.att = @ + 1, !.qs = qs,
                                                   !.waits = Append(@, Delay(l.att))]]
             /\ UNCHANGED <<pc, h, lockQ, tmp, cnt>>
  /\ UNCHANGED <<file, states, call, serial, file0, ser>>

RECURSIVE ApplyResults(_, _, _)
(* an entity map with the resolved entries stored under their keys *)
ApplyResults(ents, keys, res) ==
  IF keys = <<>> THEN ents
  ELSE LET rest == ApplyResults(ents, Tail(keys), Tail(res))
       IN IF Head(res) = "keep" THEN rest
          ELSE [j \in 1..Len(rest) |->
                  IF rest[j].k = Head(keys) THEN Ent(rest[j].k, Head(res)) ELSE rest[j]]

(* one scene_update run as a single read-modify-write of the document `items` *)
AtomicUpdate(items, sid, keys, res) ==
  LET i == FirstMatch(items, sid)
  IN IF i = 0 THEN items
     ELSE [items EXCEPT ![i] = SetEnts(@, ApplyResults(GetEnts(@), keys, res))]

(* update_scene_states 234-243: write the temporary file, os.replace it over
   scenes.yaml; on an exception remove the temporary file *)
TmpWrite(p) ==
  /\ pc[p] = "tmp_write"
  /\ \/ /\ file' = SafeDump(loc[p].cfg)
        /\ tmp' = tmp \ {p}
        /\ pc' = [pc EXCEPT ![p] = "reload"]
        /\ loc' = [q \in Procs |->
                     IF pc[q] = "write" THEN [loc[q] EXCEPT !.det = TRUE] ELSE loc[q]]
        /\ h' = [h EXCEPT ![p] = [@ EXCEPT !.wrote = TRUE, !.inplace = TRUE, !.pre = file]]
        /\ serial' = AtomicUpdate(serial, loc[p].sid, Keys(loc[p].upd), loc[p].res)
        /\ UNCHANGED <<lockQ, cnt>>
     \/ /\ CanFail
        /\ cnt' = Fault
        /\ tmp' = tmp \ {p}
        /\ Leave(p, "smartqasa", "caught", [h[p] EXCEPT !.out = "writeerr", !.pre = file])
        /\ UNCHANGED <<file, serial>>
  /\ UNCHANGED <<states, call, file0, ser>>

----------------------------------------------------------------------------
(* Environment *)

(* the host changes the runtime state of an entity *)
EnvSetState(e, v) ==
  /\ cnt.env < MaxEnvSteps
  /\ states[e] # v
  /\ states' = [states EXCEPT ![e] = v]
  /\ cnt' = [cnt EXCEPT !.env = @ + 1]
  /\ UNCHANGED <<file, tmp, lockQ, pc, call, loc, h, serial, file0, ser>>

Next ==
  \/ \E p \in Procs, svc \in Services, eid \in EntityIds : Call(p, svc, eid)
  \/ \E p \in Procs : CaptureRead(p)
  \/ \E p \in Procs : CaptureOpenW(p)
  \/ \E p \in Procs : CaptureWrite(p)
  \/ \E p \in Procs : RetrieveRead(p)
  \/ \E p \in Procs : UpdateRead(p)
  \/ \E p \in Procs : Resolve(p)
  \/ \E p \in Procs : TmpWrite(p)
  \/ \E p \in Procs : Reload(p)
  \/ \E e \in Entities, v \in StateVals : EnvSetState(e, v)

Spec == Init /\ [][Next]_vars

(* somebody outside the program removes scenes.yaml from the configuration
   directory; update_scene_states 188-190 provides for it *)
EnvRemoveFile ==
  /\ file.kind = "list"
  /\ file' = Absent
  /\ UNCHANGED <<tmp, states, lockQ, pc, call, loc, h, serial, file0, cnt, ser>>

NextFs == Next \/ EnvRemoveFile

SpecFs == Init /\ [][NextFs]_vars

(* the next step of invocation p *)
Step(p) ==
  \/ CaptureRead(p) \/ CaptureOpenW(p) \/ CaptureWrite(p)
  \/ RetrieveRead(p) \/ UpdateRead(p) \/ Resolve(p) \/ TmpWrite(p)
  \/ Reload(p)

(* the event loop resumes every task whose await has completed, and
   asyncio.Lock wakes its waiters in FIFO order *)
Fairness == \A p \in Procs : WF_vars(Step(p))

(* the fair runs start from a document with both scenes, one with an item
   that is no mapping, one that is no list, or no file, and with an entity
   that has no state object yet *)
InitFair ==
  /\ Init
  /\ file \in {Doc(<<S1, S2>>), Doc(<<S1, NonDict>>), NotList, Absent}
  /\ states["e2"] = "none"

SpecFair == InitFair /\ [][Next]_vars /\ Fairness

(* the serializers applied to a value, apart from any invocation *)
InitSer ==
  /\ InitScenes
  /\ file = Absent
  /\ states = [e \in Entities |-> "on"]
  /\ ser \in [data : SerInputs, to : {Pending}, mk : {Pending}]

RunToSerializable ==
  /\ ser.to = Pending
  /\ ser' = [ser EXCEPT !.to = to_serializable(ser.data)]
  /\ UNCHANGED <<file, tmp, states, lockQ, pc, call, loc, h, serial, file0, cnt>>

RunMakeSerializable ==
  /\ ser.mk = Pending
  /\ ser' = [ser EXCEPT !.mk = make_serializable(ser.data)]
  /\ UNCHANGED <<file, tmp, states, lockQ, pc, call, loc, h, serial, file0, cnt>>

NextSer == RunToSerializable \/ RunMakeSerializable

SpecSer == InitSer /\ [][NextSer]_vars

----------------------------------------------------------------------------
(* Properties *)

Finished(p) == pc[p] \in {"idle", "done"}
Started(p) == pc[p] # "idle"

(* p holds the lock of its integration *)
InSection(p) == Started(p) /\ Holder(LockOf(call[p].svc)) = p

(* p is between its read of scenes.yaml and the end of its write *)
InReadToWrite(p) == pc[p] \in {"open_w", "write", "resolve", "tmp_write"}

(* C1: at most one invocation of update, scene_update and scene_get taken
   together is inside its lock-held section, and no two writers are between
   their read and their write at the same time *)
C1_MutualExclusion ==
  \A p, q \in Procs :
    p # q => /\ ~(InSection(p) /\ InSection(q))
             /\ ~(InReadToWrite(p) /\ InReadToWrite(q))

(* C2: scenes.yaml always holds a complete serialization, and once every
   invocation has completed it has no fewer records than before any started *)
C2_NoRecordLoss ==
  /\ file.kind # "empty"
  /\ (\A p \in Procs : Finished(p)) => Len(ItemsOf(file)) >= Len(ItemsOf(file0))

OnlySceneUpdate == \A p \in Procs : Started(p) => call[p].svc # "update"

(* C3: with scene_update invocations only, the document in scenes.yaml is the
   one obtained by running the invocations that wrote one at a time, each as
   one read-modify-write, in the order of their writes *)
C3_Serialized ==
  (OnlySceneUpdate /\ file.kind = "list") => file.items = serial

(* C4: no read of scenes.yaml by an invocation returns a truncated document *)
C4_NoTornRead == \A p \in Procs : "empty" \notin h[p].reads

(* C5: when the write step of an invocation fails, scenes.yaml holds the
   content it had when that invocation began to write, and the invocation's
   temporary file is gone *)
C5_FailedWriteKeepsFile ==
  [][\A p \in Procs :
       (h[p].out # "writeerr" /\ h'[p].out = "writeerr")
         => (file' = h'[p].pre /\ p \notin tmp')]_vars

EntriesOf(ents, k) == {ents[j].v : j \in {i \in 1..Len(ents) : ents[i].k = k}}

(* C6: an entity whose resolution used up its attempts without success has,
   in the entity map scene_update stores, the entry it had before *)
C6_UnresolvedSkipped ==
  \A p \in Procs :
    (call[p].svc = "scene_update" /\ pc[p] \in {"tmp_write", "reload", "done"})
      => \A j \in 1..Len(h[p].new) :
           h[p].new[j].k \in h[p].failed
             => h[p].new[j].v \in EntriesOf(h[p].old, h[p].new[j].k)

(* C7: an update whose scene id is in no record of the document it read for
   the update writes nothing, reloads nothing and reports no success *)
C7_NotFoundNoWrite ==
  \A p \in Procs :
    h[p].foundU = "no"
      => /\ pc[p] \notin {"resolve", "tmp_write", "reload"}
         /\ ~h[p].wrote /\ h[p].reloads = 0 /\ h[p].out # "ok"

(* C8: an invocation that found scenes.yaml missing at one of its reads goes
   no further than reporting the scene as not found *)
C8_MissingFileNotFound ==
  \A p \in Procs :
    "absent" \in h[p].reads
      => /\ pc[p] \notin {"resolve", "tmp_write", "reload"}
         /\ h[p].out \in {"none", "notfound"}
         /\ ~h[p].wrote

Malformed(f) ==
  \/ f.kind = "notlist"
  \/ f.kind = "list" /\ \E i \in 1..Len(f.items) :
                          f.items[i].dict /\ ~(f.items[i].hasId /\ f.items[i].hasEnts)

(* C9: on a malformed scenes.yaml every update aborts before any mutation:
   the file stays as it is, nothing is written, nothing is reloaded *)
C9_MalformedAborts ==
  Malformed(file0)
    => /\ file = file0
       /\ \A p \in Procs : ~h[p].wrote /\ h[p].reloads = 0

InQueue(p, L) == \E i \in 1..Len(lockQ[L]) : lockQ[L][i] = p

(* C10: an invocation that has finished, on whatever path, holds no lock and
   waits for none; with no invocation in flight both locks are free *)
C10_LockReleased ==
  /\ \A p \in Procs : Finished(p) => \A L \in Locks : ~InQueue(p, L)
  /\ (\A p \in Procs : Finished(p)) => \A L \in Locks : lockQ[L] = <<>>

(* an exception escaped one handler, a write failed in another, and both are over *)
C10_Witness ==
  \E p, q \in Procs :
    /\ pc[p] = "done" /\ h[p].out = "raised"
    /\ pc[q] = "done" /\ h[q].out = "writeerr"

(* the sleeps of a resolution that made n queries: 0.25 s before the 2nd,
   0.5 s before the 3rd *)
ExpectedWaits(n) == [i \in 1..(n - 1) |-> BaseDelayMs * Pow2(i - 1)]

OnlyLastLoaded(qs) == \A i \in 1..(Len(qs) - 1) : ~qs[i]

(* C11: per listed entity the resolver makes at most 3 queries and stops at
   the first one that finds a loaded state; it sleeps 0.25 s before the 2nd
   query and 0.5 s before the 3rd, and never after the 3rd *)
C11_BoundedBackoff ==
  \A p \in Procs :
    /\ \A j \in 1..Len(h[p].log) :
         LET r == h[p].log[j]
         IN /\ Len(r.qs) \in 1..MaxAttempts
            /\ OnlyLastLoaded(r.qs)
            /\ (~r.qs[Len(r.qs)] => Len(r.qs) = MaxAttempts)
            /\ r.waits = ExpectedWaits(Len(r.qs))
    /\ Len(loc[p].qs) < MaxAttempts
    /\ \A i \in 1..Len(loc[p].qs) : ~loc[p].qs[i]
    /\ loc[p].waits = ExpectedWaits(Len(loc[p].qs) + 1)

(* one entity took all three queries and never loaded, another loaded at the
   third query *)
C11_Witness ==
  \E p, q \in Procs : \E i \in 1..Len(h[p].log) : \E j \in 1..Len(h[q].log) :
    /\ h[p].log[i].qs = <<FALSE, FALSE, FALSE>>
    /\ h[p].log[i].waits = <<250, 500>>
    /\ h[q].log[j].qs = <<FALSE, FALSE, TRUE>>

(* outcomes of an invocation that did not write scenes.yaml *)
NoWriteOutcomes == {"invalid", "notfound", "loaderr", "raised", "writeerr", "got"}

(* C12: scene.reload is issued exactly once per successful write of
   scenes.yaml, only after the invocation's new content is in place in
   scenes.yaml, and never by an invocation that did not successfully write *)
C12_ReloadAfterWrite ==
  \A p \in Procs :
    /\ h[p].reloads <= 1
    /\ (pc[p] = "reload" \/ h[p].reloads = 1) => (h[p].wrote /\ h[p].inplace)
    /\ (Finished(p) /\ h[p].wrote) => h[p].reloads = 1
    /\ (h[p].out \in NoWriteOutcomes \/ call[p].svc = "scene_get") => h[p].reloads = 0

(* documents a and b have the same records in the same order, except for the
   entities field of the record of scene sid *)
SameFrame(a, b, sid) ==
  /\ Len(a) = Len(b)
  /\ \A i \in 1..Len(a) :
       IF i = FirstMatch(a, sid)
       THEN b[i] = SetEnts(a[i], GetEnts(b[i]))
       ELSE b[i] = a[i]

(* C13: a successful update of scene X changes only the entities field of
   record X: the written document has the same records in the same order as
   scenes.yaml had at the time of the write, every other record and every
   other field of X's record unchanged, in every interleaving *)
C13_OnlyEntitiesChange ==
  [][\A p \in Procs :
       (~h[p].wrote /\ h'[p].wrote)
         => SameFrame(ItemsOf(h'[p].pre), loc[p].cfg, loc[p].sid)]_vars

(* p runs alone and the runtime states do not change while it runs *)
Uncontended(p) == cnt.env = 0 /\ \A q \in Procs \ {p} : pc[q] = "idle"

(* the entity map of scene sid in scenes.yaml *)
WrittenEnts(sid) ==
  LET items == ItemsOf(file)
  IN IF FirstMatch(items, sid) = 0 THEN <<>> ELSE GetEnts(items[FirstMatch(items, sid)])

(* C14: after an uncontended update or scene_update has written, every listed
   entity whose state resolves has as its entry the serialized runtime
   attributes plus the state string, and the written map has no key that was
   not listed before *)
C14_CapturedEntries ==
  \A p \in Procs :
    (Uncontended(p) /\ pc[p] = "reload")
      => /\ FirstMatch(ItemsOf(file), loc[p].sid) > 0
         /\ \A j \in 1..Len(WrittenEnts(loc[p].sid)) :
              EntriesOf(h[p].old, WrittenEnts(loc[p].sid)[j].k) # {}
         /\ \A j \in 1..Len(h[p].old) :
              Loaded(states[h[p].old[j].k])
                => EntriesOf(WrittenEnts(loc[p].sid), h[p].old[j].k)
                     = {states[h[p].old[j].k]}

(* an uncontended invocation has written the entry "on" over "init" *)
C14_Witness ==
  \E p \in Procs :
    /\ Uncontended(p) /\ pc[p] = "reload"
    /\ EntriesOf(h[p].old, "e1") = {"init"}
    /\ EntriesOf(WrittenEnts(loc[p].sid), "e1") = {"on"}

(* C15: scene_get answers {entities: K} with K the entity ids recorded for
   the scene in scenes.yaml as this invocation read it, in document order; no
   step of a scene_get changes scenes.yaml or a temporary file, and a
   scene_get never issues a reload, whatever its outcome *)
C15_SceneGetReadOnly ==
  [][\A p \in Procs :
       call'[p].svc = "scene_get"
         => /\ pc'[p] # pc[p] => (file' = file /\ tmp' = tmp)
            /\ h'[p].reloads = 0 /\ ~h'[p].wrote
            /\ (h[p].out # "got" /\ h'[p].out = "got")
                 => /\ FirstMatch(ItemsOf(file), loc[p].sid) > 0
                    /\ Len(h'[p].resp) = Len(WrittenEnts(loc[p].sid))
                    /\ \A j \in 1..Len(h'[p].resp) :
                         h'[p].resp[j] = WrittenEnts(loc[p].sid)[j].k]_vars

(* a scene_get has answered the two entity ids of scene s1 in document order *)
C15_Witness ==
  \E p \in Procs :
    /\ call[p].svc = "scene_get" /\ h[p].out = "got"
    /\ h[p].resp = <<"e2", "e1">>

(* the entity id is not a string beginning with scene., or the scene entity
   has no runtime state or no id attribute *)
BadEntity(eid) ==
  \/ ~IsString(eid) \/ ~StartsWithScene(eid)
  \/ ~HasSceneState(eid) \/ ~HasIdAttr(eid)

(* C16: an invocation of update, scene_update or scene_get whose entity id is
   not a string beginning with scene., or whose scene entity has no runtime
   state or no id attribute, aborts at once: it never enters a lock queue,
   never reads or writes scenes.yaml and never issues a reload *)
C16_InvalidAborts ==
  [][\A p \in Procs :
       (Started(p)' /\ BadEntity(call'[p].eid))
         => /\ pc'[p] = "done" /\ h'[p].out = "invalid"
            /\ \A L \in Locks : \A i \in 1..Len(lockQ'[L]) : lockQ'[L][i] # p
            /\ h'[p].reads = {} /\ ~h'[p].wrote /\ h'[p].reloads = 0
            /\ p \notin tmp'
            /\ ~Started(p) => (file' = file /\ lockQ' = lockQ)]_vars

(* every kind of invalid entity id has been rejected by some service *)
C16_Witness ==
  \E p, q \in Procs :
    /\ pc[p] = "done" /\ call[p].eid \in {"light.x", "#list"}
    /\ pc[q] = "done" /\ call[q].eid \in {"scene.noid", "scene.ghost"}
    /\ call[p].svc = "update" /\ call[q].svc # "update"

RECURSIVE YamlSafe(_)
(* only strings, numbers, booleans, null and mappings/sequences of those *)
YamlSafe(r) ==
  \/ r.t \in PrimTypes
  \/ /\ r.t \in {"dict", "list", "tuple"}
     /\ \A i \in 1..Len(r.items) : YamlSafe(r.items[i])

(* what the serializer contract says of argument d and result r *)
Conforms(d, r) ==
  /\ YamlSafe(r)
  /\ d.t \in PrimTypes => r = d
  /\ d.t = "enum" => r = At(d, Prim("str", d.v))

(* C17: each serializer returns for every input; a primitive is returned
   unchanged, an enumerated value as the string form of its underlying
   scalar, and the result holds only strings, numbers, booleans, null and
   mappings/sequences of those *)
C17_SerializerContract ==
  /\ ser.to # Pending => Conforms(ser.data, ser.to)
  /\ ser.mk # Pending => Conforms(ser.data, ser.mk)

(* C18: under fair scheduling and whatever the registry does, every
   invocation terminates and every invocation waiting for a lock acquires it *)
C18_Terminates ==
  \A p \in Procs :
    /\ Started(p) ~> pc[p] = "done"
    /\ \A L \in Locks : InQueue(p, L) ~> (Holder(L) = p)

(* both invocations went through the same lock and finished, one of them
   after using up its attempts on an entity *)
C18_Witness ==
  /\ \A p \in Procs : pc[p] = "done" /\ call[p].svc = "scene_update" /\ h[p].wrote
  /\ \E p \in Procs : h[p].failed # {}

(* what scene_capture.update, run alone and without faults, leaves in a
   scenes.yaml that held f *)
UpdateDoc(f, sid, snap) ==
  LET items == SafeLoad(f).items
      i == FirstMatch(items, sid)
  IN IF f.kind = "notlist" \/ FindRaises(items, sid) \/ i = 0 THEN f
     ELSE SafeDump([items EXCEPT ![i] = SetEnts(@, CaptureEntities(GetEnts(@), snap))])

(* what smartqasa.scene_update, run alone and without faults, leaves in a
   scenes.yaml that held f *)
SceneUpdateDoc(f, sid, snap) ==
  LET items == SafeLoad(f).items
      i == FirstMatch(items, sid)
  IN IF f.kind = "notlist" \/ FindRaises(items, sid) \/ i = 0 \/ ~RecordsValid(items)
     THEN f
     ELSE SafeDump(AtomicUpdate(items, sid, Keys(GetEnts(items[i])),
                     [j \in 1..Len(GetEnts(items[i])) |->
                        IF Truthy(snap[GetEnts(items[i])[j].k])
                        THEN EntryOf(snap[GetEnts(items[i])[j].k]) ELSE "keep"]))

(* the document f without the entries of scene sid whose entity has no state
   object *)
DropStateless(f, sid, snap) ==
  LET items == ItemsOf(f)
      i == FirstMatch(items, sid)
  IN IF i = 0 \/ f.kind # "list" THEN f
     ELSE Doc([items EXCEPT ![i] =
            [@ EXCEPT !.ents = SelectSeq(GetEnts(items[i]), LAMBDA e : Truthy(snap[e.k]))]])

(* C19: started alone from the same document and the same unchanging runtime
   states, update and scene_update leave the same document when every listed
   entity has a state object, and otherwise documents that differ only in
   that update has removed the entities without a state object, whose
   previous entries scene_update has kept *)
C19_SameDocument ==
  \A p \in Procs :
    (Uncontended(p) /\ cnt.faults = 0 /\ pc[p] = "done" /\ h[p].out # "invalid")
      => /\ call[p].svc = "update"
              => file = DropStateless(SceneUpdateDoc(file0, SceneIdOf(call[p].eid), states),
                                      SceneIdOf(call[p].eid), states)
         /\ call[p].svc = "scene_update"
              => DropStateless(file, SceneIdOf(call[p].eid), states)
                   = UpdateDoc(file0, SceneIdOf(call[p].eid), states)

(* the entity ids recorded under scene sid in the document f *)
KeySetOf(f, sid) ==
  LET items == ItemsOf(f)
      i == FirstMatch(items, sid)
  IN IF i = 0 THEN {} ELSE {GetEnts(items[i])[j].k : j \in 1..Len(GetEnts(items[i]))}

SceneIds == {SceneIdOf(eid) : eid \in {e \in EntityIds : ValidCall(e)}}

(* C20: whatever the sequence and interleaving of update and scene_update
   invocations, each document put in scenes.yaml records under every scene a
   subset of the entity ids the document before it recorded, so that an
   entity dropped by an update is never restored; and with scene_update
   invocations only the key set of each scene stays equal to its initial one *)
C20_KeysNeverGrow ==
  [][\A sid \in SceneIds :
       /\ (file.kind = "list" /\ file'.kind = "list")
            => KeySetOf(file', sid) \subseteq KeySetOf(file, sid)
       /\ (OnlySceneUpdate' /\ file'.kind = "list")
            => KeySetOf(file', sid) = KeySetOf(file0, sid)]_vars

====
